---- MODULE Spec2Model ----
(***************************************************************************)
(* Model of the Telink SWire protocol decoder (src/pd.py).                 *)
(*                                                                         *)
(* The host constructs the decoder, delivers the sample rate through       *)
(* metadata(), calls decode() and may reset() the instance at any time.    *)
(* decode() is a coroutine: each iteration of its `while True` loop        *)
(* suspends twice, at wait({0: 'f'}) and at wait({0: 'r'}), so one low     *)
(* pulse is two steps of the model: the falling edge, which makes the      *)
(* framing check on the gap (fall - last_rise), and the rising edge, which *)
(* classifies the low time (rise - fall) and decodes.  Both are in         *)
(* samples.  Absolute sample numbers, and with them the ss/es span of      *)
(* every annotation, are not modelled: an annotation is its index, its     *)
(* (long) label and the value printed in it.                               *)
(***************************************************************************)
EXTENDS Integers, Sequences, FiniteSets, TLC

VARIABLES
    samplerate,             \* self.samplerate, set by metadata(); 0 = None
    bitrate,                \* self.options['bitrate']
    addr_bytes,             \* self.options['addr_bytes']
    bits,                   \* self.bits: the bit values of the current byte
    state,                  \* self.state
    addr,                   \* self.addr
    addr_bytes_remaining,   \* self.addr_bytes_remaining
    is_read,                \* self.is_read
    errors,                 \* self.errors
    waiting,                \* where decode() stands: "none" (not called), "error"
                            \* (raised SamplerateError), "f" or "r" (suspended in
                            \* wait for a falling or a rising edge)
    unit,                   \* decode()'s unit, as the doubles unit * k/2 it compares with
    last_rise,              \* decode()'s last_rise: FALSE = None, TRUE = set
    out,                    \* the annotations put since the last falling edge
    pulse,                  \* observer: gap of the pulse in progress, low time of the last
    rate,                   \* observer: the sample rate decode() computed its unit from
    pre,                    \* observer: the fields as they were before the pulse in progress
    hist,                   \* observer: runs of bad pulses, pending resync
    fresh,                  \* observer: a reference decoder restarted at each unexpected START
    tx,                     \* driver: the transaction being sent (SpecTx)
    plan,                   \* driver: its pulses, as bit values
    sent,                   \* driver: how many pulses of plan were fed
    log,                    \* driver: the semantic annotations put so far
    npulses                 \* driver: pulses fed (SpecTiming)

vars == <<samplerate, bitrate, addr_bytes, bits, state, addr, addr_bytes_remaining,
          is_read, errors, waiting, unit, last_rise, out, pulse, rate, pre, hist, fresh,
          tx, plan, sent, log, npulses>>

----------------------------------------------------------------------------
(* Annotation indices, src/pd.py:41-51 *)
ANN_BIT == 0
ANN_CMD_BIT == 1
ANN_BYTE == 2
ANN_START == 3
ANN_ADDR == 4
ANN_RW == 5
ANN_DATA_M == 6
ANN_DATA_S == 7
ANN_END == 8
ANN_TRIG == 9
ANN_ERROR == 10

(* States, src/pd.py:54-62 *)
ST_IDLE == 0
ST_ADDR_0 == 1
ST_ADDR_N == 2
ST_RW_ID == 3
ST_DATA == 4
ST_READ_TRIG == 5
ST_READ_DATA == 6
ST_SLAVE_END == 7
ST_READ_TRIG_OR_END == 8

START_BYTE == 90     \* 0x5A
END_BYTE == 255      \* 0xFF
max_errors == 3

----------------------------------------------------------------------------
(* Formatting.  '%d' and '0x%0nX' are modelled by the digits they print.  *)

RECURSIVE HexDigits(_)
HexDigits(n) == IF n < 16 THEN <<n>> ELSE Append(HexDigits(n \div 16), n % 16)

RECURSIVE ZeroPad(_, _)
ZeroPad(ds, w) == IF Len(ds) >= w THEN ds ELSE ZeroPad(<<0>> \o ds, w)

\* '0x%0<w>X' % n : at least w hexadecimal digits, most significant first
FmtHex(n, w) == ZeroPad(HexDigits(n), w)

Ann(idx, txt, val) == [ann |-> idx, txt |-> txt, val |-> val]

\* self._put_ann(ss, es, idx, data)
PutAnn(d, idx, txt, val) == [d EXCEPT !.out = Append(@, Ann(idx, txt, val))]

----------------------------------------------------------------------------
(* The decoder's fields as one record, so that the same step can be       *)
(* applied to the decoder and to the reference decoder `fresh`.           *)

\* the fields reset() sets (self.samplerate apart), with decode()'s initial
\* last_rise and no annotation put
Reset ==
    [bits |-> <<>>, state |-> ST_IDLE, addr |-> 0, addr_bytes_remaining |-> 0,
     is_read |-> FALSE, errors |-> 0, last_rise |-> FALSE, out |-> <<>>]

Cur ==
    [bits |-> bits, state |-> state, addr |-> addr,
     addr_bytes_remaining |-> addr_bytes_remaining, is_read |-> is_read,
     errors |-> errors, last_rise |-> last_rise, out |-> out]

\* the fields of self alone
Fields(d) ==
    [state |-> d.state, bits |-> d.bits, addr |-> d.addr,
     addr_bytes_remaining |-> d.addr_bytes_remaining,
     errors |-> d.errors, is_read |-> d.is_read]

\* mutant: the resynchronization leaves the direction flag as it is
ResyncKeepsDirection(d) ==
    [d EXCEPT !.bits = <<>>, !.errors = 0, !.state = ST_IDLE]

\* mutant: the resynchronization puts an error event of its own
ResyncAnnounced(d) ==
    [d EXCEPT !.bits = <<>>, !.errors = 0, !.state = ST_IDLE, !.is_read = FALSE,
              !.out = Append(@, Ann(ANN_ERROR, "Resync", <<>>))]

Resync(d) ==
    [d EXCEPT !.bits = <<>>, !.errors = 0, !.state = ST_IDLE, !.is_read = FALSE]

\* byte_val = 0; for i in range(n): byte_val = (byte_val << 1) | bs[off + i]
RECURSIVE ShiftIn(_, _, _, _)
ShiftIn(bs, off, n, acc) ==
    IF n = 0 THEN acc ELSE ShiftIn(bs, off + 1, n - 1, acc * 2 + bs[off + 1])

\* byte_val & 0x80 != 0 ; byte_val & 0x7F
Bit7(v) == (v \div 128) % 2 = 1
Low7(v) == v % 128

\* mutant: the slave byte is put but its bits stay in the buffer
DecodeSlaveByteKeepsBits(d) ==
    IF Len(d.bits) < 8 THEN d
    ELSE LET byte_val == ShiftIn(d.bits, 0, 8, 0)
             d1 == PutAnn(d, ANN_BYTE, "BYTE", FmtHex(byte_val, 2))
         IN PutAnn(d1, ANN_DATA_S, "DATA_S", FmtHex(byte_val, 2))

DecodeSlaveByte(d) ==
    IF Len(d.bits) < 8 THEN d
    ELSE LET byte_val == ShiftIn(d.bits, 0, 8, 0)
             d1 == PutAnn(d, ANN_BYTE, "BYTE", FmtHex(byte_val, 2))
             d2 == PutAnn(d1, ANN_DATA_S, "DATA_S", FmtHex(byte_val, 2))
         IN [d2 EXCEPT !.bits = <<>>]

\* mutant: only a START received in Idle reloads the count of address bytes
DecodeStartReloadInIdle(d, byte_val) ==
    LET d1 == IF d.state # ST_IDLE
              THEN PutAnn(d, ANN_ERROR, "Unexpected START", <<>>)
              ELSE d
        d2 == PutAnn(d1, ANN_BYTE, "BYTE", FmtHex(byte_val, 2))
        d3 == PutAnn(d2, ANN_START, "START", <<>>)
    IN [d3 EXCEPT !.state = ST_ADDR_0,
                  !.addr_bytes_remaining = IF d.state = ST_IDLE THEN addr_bytes ELSE @,
                  !.addr = 0,
                  !.bits = <<>>,
                  !.errors = 0]

\* the START branch of _decode_byte
DecodeStart(d, byte_val) ==
    LET d1 == IF d.state # ST_IDLE
              THEN PutAnn(d, ANN_ERROR, "Unexpected START", <<>>)
              ELSE d
        d2 == PutAnn(d1, ANN_BYTE, "BYTE", FmtHex(byte_val, 2))
        d3 == PutAnn(d2, ANN_START, "START", <<>>)
    IN [d3 EXCEPT !.state = ST_ADDR_0,
                  !.addr_bytes_remaining = addr_bytes,
                  !.addr = 0,
                  !.bits = <<>>,
                  !.errors = 0]

\* mutant: a command byte leaves the direction flag as it is
DecodeCmdKeepDirection(d, byte_val) ==
    IF byte_val = END_BYTE
    THEN [PutAnn(d, ANN_END, "END", <<>>) EXCEPT !.state = ST_IDLE]
    ELSE [PutAnn(d, ANN_ERROR, "Invalid CMD", FmtHex(byte_val, 2)) EXCEPT !.state = ST_IDLE]

\* the cmd == 1 branch of _decode_byte (START excluded)
DecodeCmd(d, byte_val) ==
    IF byte_val = END_BYTE
    THEN [PutAnn(d, ANN_END, "END", <<>>) EXCEPT !.state = ST_IDLE, !.is_read = FALSE]
    ELSE [PutAnn(d, ANN_ERROR, "Invalid CMD", FmtHex(byte_val, 2))
             EXCEPT !.state = ST_IDLE, !.is_read = FALSE]

\* mutant: a data byte in Idle is dropped without an error
DecodeIdleSilent(d) == d

\* the ST_IDLE branch (a data byte with no transaction open)
DecodeIdle(d) == PutAnn(d, ANN_ERROR, "Missing START", <<>>)

\* the ST_ADDR_0 branch
DecodeAddr0(d, byte_val) ==
    LET rem == d.addr_bytes_remaining - 1
        d1 == [d EXCEPT !.addr = byte_val, !.addr_bytes_remaining = rem]
    IN IF rem > 0
       THEN [d1 EXCEPT !.state = ST_ADDR_N]
       ELSE [PutAnn(d1, ANN_ADDR, "ADDR", FmtHex(d1.addr, 2)) EXCEPT !.state = ST_RW_ID]

\* mutant: the address is shifted by 4 bits for each byte
AddrFoldNibble(a, byte_val) == a * 16 + byte_val

\* self.addr = (self.addr << 8) | byte_val
AddrFold(a, byte_val) == a * 256 + byte_val

\* the ST_ADDR_N branch
DecodeAddrN(d, byte_val) ==
    LET rem == d.addr_bytes_remaining - 1
        d1 == [d EXCEPT !.addr = AddrFold(d.addr, byte_val), !.addr_bytes_remaining = rem]
    IN IF rem = 0
       THEN [PutAnn(d1, ANN_ADDR, "ADDR", FmtHex(d1.addr, addr_bytes * 2))
                EXCEPT !.state = ST_RW_ID]
       ELSE d1

\* mutant: the next state is chosen against the direction bit
DecodeRwIdInverted(d, byte_val) ==
    LET rd == Bit7(byte_val)
        d1 == [d EXCEPT !.is_read = rd]
        d2 == PutAnn(d1, ANN_RW, IF rd THEN "R" ELSE "W", <<Low7(byte_val)>>)
    IN [d2 EXCEPT !.state = IF rd THEN ST_DATA ELSE ST_READ_TRIG]

\* mutant: the direction/ID byte always opens a write
DecodeRwIdAlwaysWrite(d, byte_val) ==
    LET rd == Bit7(byte_val)
        d1 == [d EXCEPT !.is_read = rd]
        d2 == PutAnn(d1, ANN_RW, IF rd THEN "R" ELSE "W", <<Low7(byte_val)>>)
    IN [d2 EXCEPT !.state = ST_DATA]

\* the ST_RW_ID branch
DecodeRwId(d, byte_val) ==
    LET rd == Bit7(byte_val)
        d1 == [d EXCEPT !.is_read = rd]
        d2 == PutAnn(d1, ANN_RW, IF rd THEN "R" ELSE "W", <<Low7(byte_val)>>)
    IN [d2 EXCEPT !.state = IF rd THEN ST_READ_TRIG ELSE ST_DATA]

DecodeByte(d) ==
    IF Len(d.bits) < 9 THEN d
    ELSE
      LET cmd == d.bits[1]
          byte_val == ShiftIn(d.bits, 1, 8, 0)
      IN IF cmd = 1 /\ byte_val = START_BYTE
         THEN DecodeStart(d, byte_val)
         ELSE
           LET d1 == PutAnn(d, ANN_BYTE, "BYTE", FmtHex(byte_val, 2))
               d2 == IF cmd = 1 THEN DecodeCmd(d1, byte_val)
                     ELSE IF d1.state = ST_IDLE THEN DecodeIdle(d1)
                     ELSE IF d1.state = ST_ADDR_0 THEN DecodeAddr0(d1, byte_val)
                     ELSE IF d1.state = ST_ADDR_N THEN DecodeAddrN(d1, byte_val)
                     ELSE IF d1.state = ST_RW_ID THEN DecodeRwId(d1, byte_val)
                     ELSE PutAnn(d1, ANN_DATA_M, "DATA_M", FmtHex(byte_val, 2))
           IN [d2 EXCEPT !.bits = <<>>]

----------------------------------------------------------------------------
(* Double-precision arithmetic.  unit = samplerate / (bitrate * 5) and the *)
(* products unit * 0.5, ... , unit * 10 are IEEE-754 doubles, rounded to   *)
(* nearest, ties to even.  A double is held as its 53 significand bits m   *)
(* (most significant first, m[1] = 1) and the exponent e of its last bit:  *)
(* its value is m * 2^e.  Integers are handled as digits of radix 256 so   *)
(* that no intermediate value leaves 32 bits; the divisor bitrate * 5 must *)
(* be below 2^23.                                                          *)

Precision == 53      \* significand bits of a double
Radix == 256
FracDigits == 10     \* digits of the quotient computed after the point

\* 2^n for 0 <= n <= 7
Pow2(n) == CASE n = 0 -> 1 [] n = 1 -> 2 [] n = 2 -> 4 [] n = 3 -> 8
             [] n = 4 -> 16 [] n = 5 -> 32 [] n = 6 -> 64 [] n = 7 -> 128

\* the j-th bit, most significant first, of the digits ds (0 outside them)
BitAt(ds, j) ==
    IF j < 1 \/ j > 8 * Len(ds) THEN 0
    ELSE (ds[((j - 1) \div 8) + 1] \div Pow2(7 - ((j - 1) % 8))) % 2

\* the i-th digit of the bits bs (0 past their end)
ByteAt(bs, i) ==
    LET b(j) == IF 8 * (i - 1) + j < 1 \/ 8 * (i - 1) + j > Len(bs) THEN 0
                ELSE bs[8 * (i - 1) + j]
    IN 128 * b(1) + 64 * b(2) + 32 * b(3) + 16 * b(4) + 8 * b(5) + 4 * b(6) + 2 * b(7) + b(8)

\* the four digits of an integer 0 <= n < 2^31
IntDigits(n) ==
    << n \div (Radix * Radix * Radix), (n \div (Radix * Radix)) % Radix, (n \div Radix) % Radix, n % Radix >>

\* long division: k more digits of r / d appended to acc, and the remainder
RECURSIVE FracDigitsOf(_, _, _, _)
FracDigitsOf(r, d, k, acc) ==
    IF k = 0 THEN [ds |-> acc, r |-> r]
    ELSE FracDigitsOf((r * Radix) % d, d, k - 1, Append(acc, (r * Radix) \div d))

\* the digits of (ds[1..i] * c + carry), for a small factor c
RECURSIVE MulDigits(_, _, _, _)
MulDigits(ds, c, i, carry) ==
    IF i = 0 THEN <<carry>>
    ELSE Append(MulDigits(ds, c, i - 1, (ds[i] * c + carry) \div Radix), (ds[i] * c + carry) % Radix)

\* the bits m plus one unit in the last place
Incr(m) ==
    IF \A j \in 1..Len(m) : m[j] = 1
    THEN [j \in 1..(Len(m) + 1) |-> IF j = 1 THEN 1 ELSE 0]
    ELSE LET p == CHOOSE j \in 1..Len(m) : m[j] = 0 /\ \A i \in (j + 1)..Len(m) : m[i] = 1
         IN [j \in 1..Len(m) |-> IF j < p THEN m[j] ELSE IF j = p THEN 1 ELSE 0]

\* round to nearest, ties to even: g is the first bit dropped, s tells
\* whether anything non-zero follows it
RoundEven(m, g, s, e) ==
    IF g = 1 /\ (s \/ m[Len(m)] = 1)
    THEN LET inc == Incr(m)
         IN IF Len(inc) > Len(m) THEN [m |-> SubSeq(inc, 1, Len(m)), e |-> e + 1]
            ELSE [m |-> inc, e |-> e]
    ELSE [m |-> m, e |-> e]

\* the double nearest to the positive number whose digits are ds, the last
\* digit having weight 2^lsb; inexact tells that a non-zero rest was cut off
Normalize(ds, inexact, lsb) ==
    LET n == 8 * Len(ds)
        lead == CHOOSE j \in 1..n : BitAt(ds, j) = 1 /\ \A i \in 1..(j - 1) : BitAt(ds, i) = 0
    IN RoundEven([j \in 1..Precision |-> BitAt(ds, lead + j - 1)],
                 BitAt(ds, lead + Precision),
                 inexact \/ \E j \in (lead + Precision + 1)..n : BitAt(ds, j) = 1,
                 lsb + n - (lead + Precision - 1))

\* the double n / d, for integers 0 < n < 2^31 and 0 < d < 2^23
FDiv(n, d) ==
    LET fd == FracDigitsOf(n % d, d, FracDigits, IntDigits(n \div d))
    IN Normalize(fd.ds, fd.r # 0, 0 - 8 * FracDigits)

\* the double x * (k/2): k/2 is 0.5, 1.5, 2.5, 3.5, 4.5 or 10.0, all exact
FMulHalves(x, k) ==
    LET ds == [i \in 1..7 |-> ByteAt(<<0, 0, 0>> \o x.m, i)]
    IN Normalize(MulDigits(ds, k, 7, 0), FALSE, x.e - 1)

MaxIntBits == 31      \* sample counts are below 2^31

\* a double as it compares with integers: its integer part ip, whether a
\* fraction fr follows, or big when it is above every sample count
Whole(x) ==
    LET n == Precision + x.e
        ib == [j \in 1..32 |-> IF n - 32 + j >= 1 /\ n - 32 + j <= Precision THEN x.m[n - 32 + j] ELSE 0]
    IN IF n > MaxIntBits THEN [big |-> TRUE, ip |-> 0, fr |-> FALSE]
       ELSE [big |-> FALSE,
             ip |-> ((ByteAt(ib, 1) * Radix + ByteAt(ib, 2)) * Radix + ByteAt(ib, 3)) * Radix + ByteAt(ib, 4),
             fr |-> \E i \in 1..Precision : i > n /\ x.m[i] = 1]

\* comparisons of a double with an integer sample count, exact as in Python
FloatLeInt(w, k) == ~w.big /\ (w.ip < k \/ (w.ip = k /\ ~w.fr))
IntLeFloat(k, w) == w.big \/ k <= w.ip
IntGtFloat(k, w) == ~w.big /\ k > w.ip

----------------------------------------------------------------------------
(* Timing.  The factors 0.5, 1.5, 2.5, 3.5, 4.5 and 10 are k/2 for the k   *)
(* of HalfUnitKs; unit[k] is the double unit * (k/2), which decode()       *)
(* compares with the integer sample counts low_time and fall - last_rise.  *)

HalfUnitKs == {1, 3, 5, 7, 9, 20}

\* unit = self.samplerate / (self.options['bitrate'] * 5), then unit * (k/2)
UnitOf(sr, br) ==
    LET u == FDiv(sr, br * 5)
    IN [k \in HalfUnitKs |-> Whole(FMulHalves(u, k))]

\* unit * (k/2) <= x
HalfUnitsLe(k, x) == FloatLeInt(unit[k], x)
\* x <= unit * (k/2)
LeHalfUnits(x, k) == IntLeFloat(x, unit[k])
\* x > unit * (k/2)
GtHalfUnits(x, k) == IntGtFloat(x, unit[k])

is_valid_0(low_time) == HalfUnitsLe(1, low_time) /\ LeHalfUnits(low_time, 3)
is_valid_1(low_time) == HalfUnitsLe(7, low_time) /\ LeHalfUnits(low_time, 9)

\* bit = 1 if low_time > thresh else 0, thresh = unit * 2.5
BitOf(low_time) == IF GtHalfUnits(low_time, 5) THEN 1 ELSE 0

\* mutant: a gap of exactly 10 units is too long
GapTooLongInclusive(gap) == HalfUnitsLe(20, gap)

\* (fall - last_rise) > max_bit_gap, max_bit_gap = unit * 10
GapTooLong(gap) == GtHalfUnits(gap, 20)

in_frame(d) == Len(d.bits) > 0 \/ d.state \in {ST_READ_DATA, ST_SLAVE_END}

----------------------------------------------------------------------------
(* One iteration of the loop of decode(), in its two halves.               *)

\* mutant: the framing error is put but the decoder is not resynchronized
GapCheckNoResync(d, gap) ==
    IF d.last_rise /\ in_frame(d) /\ GapTooLong(gap)
    THEN PutAnn(d, ANN_ERROR, "Frame gap", <<>>)
    ELSE d

\* the framing check made at the falling edge
GapCheck(d, gap) ==
    IF d.last_rise /\ in_frame(d) /\ GapTooLong(gap)
    THEN Resync(PutAnn(d, ANN_ERROR, "Frame gap", <<>>))
    ELSE d

\* mutant: every badly timed pulse drops the bits buffered so far
BadTimingClearsBuffer(d) ==
    LET d1 == PutAnn(d, ANN_ERROR, "Bad timing", <<>>)
        d2 == [d1 EXCEPT !.errors = @ + 1, !.bits = <<>>]
    IN IF d2.errors >= max_errors THEN Resync(d2) ELSE d2

\* mutant: the resynchronization waits for a fourth bad pulse
BadTimingOffByOne(d) ==
    LET d1 == PutAnn(d, ANN_ERROR, "Bad timing", <<>>)
        d2 == [d1 EXCEPT !.errors = @ + 1]
    IN IF d2.errors > max_errors THEN Resync(d2) ELSE d2

\* a pulse that is neither a valid 0 nor a valid 1
BadTiming(d) ==
    LET d1 == PutAnn(d, ANN_ERROR, "Bad timing", <<>>)
        d2 == [d1 EXCEPT !.errors = @ + 1]
    IN IF d2.errors >= max_errors THEN Resync(d2) ELSE d2

\* mutant: the byte is decoded as soon as its ninth bit is buffered
MasterBitEager(d, bit) ==
    LET ann_idx == IF Len(d.bits) = 0 THEN ANN_CMD_BIT ELSE ANN_BIT
        d1 == [PutAnn(d, ann_idx, "bit", <<bit>>) EXCEPT !.bits = Append(@, bit)]
    IN IF Len(d1.bits) = 9 THEN DecodeByte(d1) ELSE d1

\* the master byte path, lines 276-283
MasterBit(d, bit) ==
    IF Len(d.bits) = 9 THEN DecodeByte(d)
    ELSE LET ann_idx == IF Len(d.bits) = 0 THEN ANN_CMD_BIT ELSE ANN_BIT
         IN [PutAnn(d, ann_idx, "bit", <<bit>>) EXCEPT !.bits = Append(@, bit)]

\* ST_READ_TRIG, lines 247-250
ReadTrig(d) ==
    [PutAnn(d, ANN_TRIG, "Trigger", <<>>) EXCEPT !.state = ST_READ_DATA]

\* ST_READ_DATA, lines 252-258
ReadData(d, bit) ==
    LET d1 == [PutAnn(d, ANN_BIT, "bit", <<bit>>) EXCEPT !.bits = Append(@, bit)]
    IN IF Len(d1.bits) = 8
       THEN [DecodeSlaveByte(d1) EXCEPT !.state = ST_SLAVE_END]
       ELSE d1

\* ST_SLAVE_END, lines 260-262
SlaveEnd(d) == [d EXCEPT !.state = ST_READ_TRIG_OR_END]

\* mutant: a 0 bit after a slave byte starts the master byte, a 1 bit triggers
ReadTrigOrEndInverted(d, bit) ==
    IF bit = 0
    THEN [PutAnn(d, ANN_CMD_BIT, "bit", <<bit>>)
             EXCEPT !.bits = Append(@, bit), !.state = ST_DATA]
    ELSE [PutAnn(d, ANN_TRIG, "Trigger", <<>>) EXCEPT !.state = ST_READ_DATA]

\* mutant: every pulse after a slave byte is another trigger
ReadTrigOrEndAlwaysTrigger(d, bit) ==
    [PutAnn(d, ANN_TRIG, "Trigger", <<>>) EXCEPT !.state = ST_READ_DATA]

\* ST_READ_TRIG_OR_END, lines 264-274
ReadTrigOrEnd(d, bit) ==
    IF bit = 1
    THEN [PutAnn(d, ANN_CMD_BIT, "bit", <<bit>>)
             EXCEPT !.bits = Append(@, bit), !.state = ST_DATA]
    ELSE [PutAnn(d, ANN_TRIG, "Trigger", <<>>) EXCEPT !.state = ST_READ_DATA]

\* mutant: a validly timed pulse leaves the error counter as it is
ValidBitKeepsCount(d, bit) ==
    IF d.state = ST_READ_TRIG THEN ReadTrig(d)
    ELSE IF d.state = ST_READ_DATA THEN ReadData(d, bit)
    ELSE IF d.state = ST_SLAVE_END THEN SlaveEnd(d)
    ELSE IF d.state = ST_READ_TRIG_OR_END THEN ReadTrigOrEnd(d, bit)
    ELSE MasterBit(d, bit)

\* a validly timed pulse, lines 242-283
ValidBit(d0, bit) ==
    LET d == [d0 EXCEPT !.errors = 0]
    IN IF d.state = ST_READ_TRIG THEN ReadTrig(d)
       ELSE IF d.state = ST_READ_DATA THEN ReadData(d, bit)
       ELSE IF d.state = ST_SLAVE_END THEN SlaveEnd(d)
       ELSE IF d.state = ST_READ_TRIG_OR_END THEN ReadTrigOrEnd(d, bit)
       ELSE MasterBit(d, bit)

Classify(d, low_time) ==
    IF ~(is_valid_0(low_time) \/ is_valid_1(low_time))
    THEN BadTiming(d)
    ELSE ValidBit(d, BitOf(low_time))

\* from the falling edge to wait({0: 'r'}), lines 217-226
FallStep(d, gap) == GapCheck([d EXCEPT !.out = <<>>], gap)

\* from the rising edge to the next wait({0: 'f'}), lines 226-283 and 217
RiseStep(d, low_time) == Classify([d EXCEPT !.last_rise = TRUE], low_time)

\* a whole iteration, as the reference decoder of the observers takes it
Step(d, gap, low_time) == RiseStep(FallStep(d, gap), low_time)

----------------------------------------------------------------------------
(* Observers.  They read only the pulses fed and the annotations put.      *)

Has(o, idx) == \E i \in 1..Len(o) : o[i].ann = idx
HasErr(o, txt) == \E i \in 1..Len(o) : o[i].ann = ANN_ERROR /\ o[i].txt = txt

\* raw : consecutive badly timed pulses, saturating at max_errors
\* run : badly timed pulses since the last valid pulse, frame-gap resync or
\*       third bad pulse of such a run (1, 2, 3, 1, 2, 3, ...)
\* await : three consecutive bad pulses were seen and no START was put since
\* phase : how far the open transaction has come, read off the events:
\*         "closed", "start", "addr", "R" or "W"
HistInit ==
    [raw |-> 0, run |-> 0, await |-> FALSE, phase |-> "closed"]

IsClosing(e) ==
    \/ e.ann = ANN_END
    \/ e.ann = ANN_ERROR /\ e.txt \in {"Invalid CMD", "Frame gap"}

PhaseAfter(p, e) ==
    IF e.ann = ANN_START THEN "start"
    ELSE IF e.ann = ANN_ADDR THEN "addr"
    ELSE IF e.ann = ANN_RW THEN e.txt
    ELSE IF IsClosing(e) THEN "closed"
    ELSE p

RECURSIVE PhaseFold(_, _)
PhaseFold(p, o) == IF o = <<>> THEN p ELSE PhaseFold(PhaseAfter(p, Head(o)), Tail(o))

HistNext(h, o) ==
    LET bad == HasErr(o, "Bad timing")
        gap == HasErr(o, "Frame gap")
        raw == IF bad THEN (IF h.raw < max_errors THEN h.raw + 1 ELSE h.raw) ELSE 0
        run == IF ~bad THEN 0
               ELSE IF gap \/ h.run = max_errors THEN 1
               ELSE h.run + 1
    IN [raw |-> raw, run |-> run,
        await |-> IF Has(o, ANN_START) THEN FALSE
                  ELSE IF raw = max_errors THEN TRUE ELSE h.await,
        phase |-> IF raw = max_errors THEN "closed" ELSE PhaseFold(h.phase, o)]

\* the 9 bits of a START byte: cmd = 1, then 0x5A most significant bit first
Bits8(v) == [i \in 1..8 |-> (v \div (2 ^ (8 - i))) % 2]
StartBits == <<1>> \o Bits8(START_BYTE)

\* a decoder fresh from reset() that has just decoded a START byte
FreshStart ==
    [active |-> TRUE,
     d |-> DecodeByte([Reset EXCEPT !.bits = StartBits, !.last_rise = TRUE])]
FreshInit == [active |-> FALSE, d |-> Reset]

FreshNext(f, o, gap, low_time) ==
    IF HasErr(o, "Unexpected START") THEN FreshStart
    ELSE IF Has(o, ANN_START) THEN FreshInit
    ELSE IF f.active THEN [f EXCEPT !.d = Step(f.d, gap, low_time)]
    ELSE f

----------------------------------------------------------------------------
(* Bounds of the exploration.                                              *)

DefaultBitrate == 960000
Rates == {9600000}     \* the sample rates of Spec and SpecTx: a unit of 2 samples
MaxLow == 15     \* the longest low time fed in SpecTx, in samples
ExtraBytes == 1  \* how many byte values are explored besides 0x5A and 0xFF

\* the i-th byte value explored besides START and END: 0x12, 0xAB, 0x44, ...
ExtraByte(i) == (18 + 153 * (i - 1)) % 256
ByteVals == {START_BYTE, END_BYTE} \cup {ExtraByte(i) : i \in 1..ExtraBytes}

\* the low times fed in Spec: 1, 2 and 4 units, rounded down to whole samples
Lows == {(k * rate) \div (bitrate * 5) : k \in {1, 2, 4}}
\* the gaps fed: the last whole number of samples within 10 units
\* (10 units = 2 * rate / bitrate samples) and the first one above
Gaps == {(2 * rate) \div bitrate, (2 * rate) \div bitrate + 1}

IsPrefix(s, t) == Len(s) <= Len(t) /\ \A i \in 1..Len(s) : s[i] = t[i]

\* The pulses explored assemble only bytes of ByteVals.
InAlphabet(d, low_time) ==
    (is_valid_0(low_time) \/ is_valid_1(low_time)) =>
      LET nb == Append(d.bits, BitOf(low_time))
      IN IF d.state = ST_READ_DATA
         THEN \E v \in ByteVals : IsPrefix(nb, Bits8(v))
         ELSE IF d.state \in {ST_IDLE, ST_ADDR_0, ST_ADDR_N, ST_RW_ID, ST_DATA}
                 /\ Len(d.bits) \in 1..8
         THEN \E v \in ByteVals : IsPrefix(Tail(nb), Bits8(v))
         ELSE TRUE

----------------------------------------------------------------------------
(* Specification.                                                          *)

NoUnit == [k \in HalfUnitKs |-> [big |-> FALSE, ip |-> 0, fr |-> FALSE]]
NoPulse == [gap |-> 0, low_time |-> 0]

\* the observers before any pulse
InitObservers ==
    /\ out = Reset.out
    /\ pulse = NoPulse
    /\ rate = 0
    /\ pre = Fields(Reset)
    /\ hist = HistInit
    /\ fresh = FreshInit

\* __init__: the instance as reset() leaves it; decode() not yet called
InitDecoder ==
    /\ samplerate = 0
    /\ bits = Reset.bits
    /\ state = Reset.state
    /\ addr = Reset.addr
    /\ addr_bytes_remaining = Reset.addr_bytes_remaining
    /\ is_read = Reset.is_read
    /\ errors = Reset.errors
    /\ waiting = "none"
    /\ unit = NoUnit
    /\ last_rise = Reset.last_rise
    /\ InitObservers

NoDriver ==
    /\ tx = [addr |-> <<>>, rw |-> 0, data |-> <<>>]
    /\ plan = <<>>
    /\ sent = 0
    /\ log = <<>>
    /\ npulses = 0

Init ==
    /\ bitrate = DefaultBitrate
    /\ addr_bytes \in {2, 3}
    /\ InitDecoder
    /\ NoDriver

\* metadata(SRD_CONF_SAMPLERATE, value)
Metadata(value) ==
    /\ samplerate' = value
    /\ UNCHANGED <<bitrate, addr_bytes, bits, state, addr, addr_bytes_remaining, is_read,
                   errors, waiting, unit, last_rise, out, pulse, rate, pre, hist, fresh,
                   tx, plan, sent, log, npulses>>

\* decode() is called and runs to its first wait({0: 'f'}), or raises
StartDecode ==
    /\ waiting \in {"none", "error"}
    /\ IF samplerate = 0
       THEN /\ waiting' = "error"
            /\ UNCHANGED <<unit, rate, last_rise>>
       ELSE /\ unit' = UnitOf(samplerate, bitrate)
            /\ rate' = samplerate
            /\ last_rise' = FALSE
            /\ waiting' = "f"
    /\ UNCHANGED <<samplerate, bitrate, addr_bytes, bits, state, addr,
                   addr_bytes_remaining, is_read, errors, out, pulse, pre, hist, fresh,
                   tx, plan, sent, log, npulses>>

\* the host ends decode(), if it runs, and calls reset(); the observers and
\* the driver start again with the instance
ResetCall ==
    /\ samplerate' = 0
    /\ bits' = Reset.bits
    /\ state' = Reset.state
    /\ addr' = Reset.addr
    /\ addr_bytes_remaining' = Reset.addr_bytes_remaining
    /\ is_read' = Reset.is_read
    /\ errors' = Reset.errors
    /\ waiting' = "none"
    /\ unit' = NoUnit
    /\ last_rise' = Reset.last_rise
    /\ out' = Reset.out
    /\ pulse' = NoPulse
    /\ rate' = 0
    /\ pre' = Fields(Reset)
    /\ hist' = HistInit
    /\ fresh' = FreshInit
    /\ sent' = 0
    /\ log' = <<>>
    /\ npulses' = 0
    /\ UNCHANGED <<bitrate, addr_bytes, tx, plan>>

\* the fields and the annotations after a half iteration
Becomes(n) ==
    /\ bits' = n.bits
    /\ state' = n.state
    /\ addr' = n.addr
    /\ addr_bytes_remaining' = n.addr_bytes_remaining
    /\ is_read' = n.is_read
    /\ errors' = n.errors
    /\ last_rise' = n.last_rise
    /\ out' = n.out

\* a falling edge wakes decode(), gap samples after the last rising edge
FallEdge(gap) ==
    /\ waiting = "f"
    /\ \E n \in {FallStep(Cur, gap)} : Becomes(n)
    /\ waiting' = "r"
    /\ pulse' = [gap |-> gap, low_time |-> 0]
    /\ pre' = Fields(Cur)
    /\ UNCHANGED <<samplerate, bitrate, addr_bytes, unit, rate, hist, fresh>>

\* a rising edge wakes decode(), low_time samples after the falling edge
RiseEdge(low_time) ==
    /\ waiting = "r"
    /\ \E n \in {RiseStep(Cur, low_time)} :
          /\ Becomes(n)
          /\ pre' = Fields(n)
          /\ hist' = HistNext(hist, n.out)
          /\ fresh' = FreshNext(fresh, n.out, pulse.gap, low_time)
    /\ waiting' = "f"
    /\ pulse' = [gap |-> 0, low_time |-> low_time]
    /\ UNCHANGED <<samplerate, bitrate, addr_bytes, unit, rate>>

Fall(gap) ==
    /\ FallEdge(gap)
    /\ UNCHANGED <<tx, plan, sent, log, npulses>>

Rise(low_time) ==
    /\ InAlphabet(Cur, low_time)
    /\ RiseEdge(low_time)
    /\ UNCHANGED <<tx, plan, sent, log, npulses>>

Next ==
    \/ \E value \in Rates : Metadata(value)
    \/ StartDecode
    \/ ResetCall
    \/ \E gap \in Gaps : Fall(gap)
    \/ \E low_time \in Lows : Rise(low_time)

Spec == Init /\ [][Next]_vars

----------------------------------------------------------------------------
(* SpecTx: a driver sends one well-formed transaction to a fresh decoder.  *)
(* A master byte is its command bit, 8 data bits and an end unit; a slave  *)
(* byte of a read is the master's trigger, 8 data bits and an end unit     *)
(* (module docstring, lines 21-35).  Triggers and end units are 1 unit     *)
(* low.                                                                    *)

MaxData == 2
AddrSeqs ==
    {<<18, 52, 86>>, <<86, 52, 18>>, <<0, 0, 1>>, <<255, 90, 255>>,
     <<171, 205>>, <<205, 171>>, <<0, 90>>, <<255, 255>>}
RwVals == {5, 133, 0, 255}
DataVals == {START_BYTE, END_BYTE, 0}

Frame(cmd, v) == <<cmd>> \o Bits8(v) \o <<0>>
SlaveUnit(v) == <<0>> \o Bits8(v) \o <<0>>

RECURSIVE Flat(_)
Flat(ss) == IF ss = <<>> THEN <<>> ELSE Head(ss) \o Flat(Tail(ss))

IsReadTx(t) == t.rw >= 128

PlanOf(t) ==
    Frame(1, START_BYTE)
    \o Flat([i \in 1..Len(t.addr) |-> Frame(0, t.addr[i])])
    \o Frame(0, t.rw)
    \o Flat([i \in 1..Len(t.data) |->
               IF IsReadTx(t) THEN SlaveUnit(t.data[i]) ELSE Frame(0, t.data[i])])
    \o Frame(1, END_BYTE)

Transactions ==
    {[addr |-> a, rw |-> r, data |-> dd] :
        a \in {x \in AddrSeqs : Len(x) = addr_bytes},
        r \in RwVals,
        dd \in UNION {[1..k -> DataVals] : k \in 0..MaxData}}

\* a low time sends the bit when it lies in the window of the bit
Sends(low_time, bit) == IF bit = 1 THEN is_valid_1(low_time) ELSE is_valid_0(low_time)

InitTx ==
    /\ bitrate = DefaultBitrate
    /\ addr_bytes \in {2, 3}
    /\ InitDecoder
    /\ tx \in Transactions
    /\ plan = PlanOf(tx)
    /\ sent = 0
    /\ log = <<>>
    /\ npulses = 0

IsSemantic(e) == e.ann \notin {ANN_BIT, ANN_CMD_BIT, ANN_BYTE}
Semantic(o) == SelectSeq(o, IsSemantic)

\* the falling edge of the next pulse of the plan; a gap above 10 units only
\* out of frame
TxFall(gap) ==
    /\ sent < Len(plan)
    /\ GapTooLong(gap) => ~in_frame(Cur)
    /\ FallEdge(gap)
    /\ UNCHANGED <<tx, plan, sent, log, npulses>>

\* its rising edge, after a low time that sends the bit planned
TxRise(low_time) ==
    /\ sent < Len(plan)
    /\ Sends(low_time, plan[sent + 1])
    /\ RiseEdge(low_time)
    /\ sent' = sent + 1
    /\ log' = log \o Semantic(out')
    /\ UNCHANGED <<tx, plan, npulses>>

NextTx ==
    \/ \E value \in Rates : Metadata(value)
    \/ StartDecode
    \/ ResetCall
    \/ \E gap \in Gaps : TxFall(gap)
    \/ \E low_time \in 1..MaxLow : TxRise(low_time)

SpecTx == InitTx /\ [][NextTx]_vars

----------------------------------------------------------------------------
(* SpecTiming: the first pulses fed to a decoder, at several sample rates  *)
(* and bit rates, with low times of 1..MaxLow samples and low times at and *)
(* around every multiple of half a unit the classification depends on.     *)

MaxTimingPulses == 2
Margin == 1      \* how far around a boundary the low times go, in samples
SampleRates == {4800000, 9600000, 12000000, 5000000}
Bitrates == {DefaultBitrate, 224}

\* the multiples of half a unit looked at: the window bounds, the midpoint,
\* and 1, 2, 4 and 6 units
BoundaryKs == {1, 2, 3, 4, 5, 7, 8, 9, 12}

TimingLows ==
    (1..MaxLow) \cup
    {l \in {(k * rate) \div (2 * (bitrate * 5)) + e :
              k \in BoundaryKs, e \in (0 - Margin)..Margin} : l >= 1}

InitTiming ==
    /\ bitrate \in Bitrates
    /\ addr_bytes \in {2, 3}
    /\ InitDecoder
    /\ NoDriver

TimingFall(gap) ==
    /\ npulses < MaxTimingPulses
    /\ FallEdge(gap)
    /\ UNCHANGED <<tx, plan, sent, log, npulses>>

TimingRise(low_time) ==
    /\ RiseEdge(low_time)
    /\ npulses' = npulses + 1
    /\ UNCHANGED <<tx, plan, sent, log>>

NextTiming ==
    \/ \E value \in SampleRates : Metadata(value)
    \/ StartDecode
    \/ ResetCall
    \/ \E gap \in Gaps : TimingFall(gap)
    \/ \E low_time \in TimingLows : TimingRise(low_time)

SpecTiming == InitTiming /\ [][NextTiming]_vars

----------------------------------------------------------------------------
(* Vocabulary of the properties, stated on the pulses fed and on the       *)
(* annotations put, with the unit u = rate / (5 * bitrate) as a rational   *)
(* number: the comparisons are made exactly, on integers.                  *)

\* 0.5u <= l <= 1.5u and 3.5u <= l <= 4.5u
Window0(l) == rate <= 10 * bitrate * l /\ 10 * bitrate * l <= 3 * rate
Window1(l) == 7 * rate <= 10 * bitrate * l /\ 10 * bitrate * l <= 9 * rate
\* g > 10u
Over10(g) == g * bitrate > 2 * rate

\* the step is the falling edge, or the rising edge, of a pulse
FallNow == waiting = "f" /\ waiting' = "r"
RiseNow == waiting = "r" /\ waiting' = "f"
\* no pulse is in progress
Between == waiting # "r"

IsPayload(e) == e.ann \in {ANN_ADDR, ANN_RW, ANN_DATA_M, ANN_DATA_S}
IsError(e) == e.ann = ANN_ERROR
Payload(o) == SelectSeq(o, IsPayload)
Errors(o) == SelectSeq(o, IsError)
Count(o, idx) == Cardinality({i \in 1..Len(o) : o[i].ann = idx})

\* the value of 8 bits, most significant first
ByteValue(b) ==
    b[1] * 128 + b[2] * 64 + b[3] * 32 + b[4] * 16 + b[5] * 8 + b[6] * 4 + b[7] * 2 + b[8]
\* the two hexadecimal digits of a byte
Hex2(v) == <<v \div 16, v % 16>>

MasterStates == {ST_IDLE, ST_ADDR_0, ST_ADDR_N, ST_RW_ID, ST_DATA}
ReadStates == {ST_READ_TRIG, ST_READ_DATA, ST_SLAVE_END, ST_READ_TRIG_OR_END}
\* in-frame before the pulse
InFrameNow == Len(pre.bits) > 0 \/ pre.state \in {ST_READ_DATA, ST_SLAVE_END}

\* about the low time of the pulse (primed at its rising edge)
PulseValid == Window0(pulse.low_time) \/ Window1(pulse.low_time)
PulseBit == IF Window1(pulse.low_time) THEN 1 ELSE 0
\* about its gap (primed at its falling edge, unprimed at its rising edge)
PulseLong == Over10(pulse.gap)

\* the rising edge completes the master byte held in the buffer: nine bits
\* were buffered before the pulse, which is validly timed and not late
Completes == RiseNow /\ Len(pre.bits) = 9 /\ PulseValid' /\ ~PulseLong
BufCmd == pre.bits[1]
BufVal == ByteValue(SubSeq(pre.bits, 2, 9))

ErrUnexpectedStart == Ann(ANN_ERROR, "Unexpected START", <<>>)
EvStart == Ann(ANN_START, "START", <<>>)
EvEnd == Ann(ANN_END, "END", <<>>)
EvTrigger == Ann(ANN_TRIG, "Trigger", <<>>)

----------------------------------------------------------------------------
(* C2: a START byte completed in AddrFirst, AddrRest, RwId or Data puts    *)
(* exactly one "unexpected START" error, then the START event, and enters  *)
(* address capture; every later address, direction/ID and data event is    *)
(* the one a decoder fresh from reset and START puts on the same pulses.   *)
C2_Step ==
    (Completes /\ pre.state # ST_IDLE /\ BufCmd = 1 /\ BufVal = START_BYTE)
    => /\ Semantic(out') = <<ErrUnexpectedStart, EvStart>>
       /\ state' = ST_ADDR_0
       /\ bits' = <<>>

C2_Later == (Between /\ fresh.active) => Payload(out) = Payload(fresh.d.out)

C2_UnexpectedStart == [][C2_Step]_vars /\ []C2_Later

\* an address event put after an unexpected START that ended a read
C2_Witness == fresh.active /\ Has(out, ANN_ADDR) /\ is_read

----------------------------------------------------------------------------
(* C3 as stated: after the third of three consecutive badly timed pulses   *)
(* the state is Idle, the buffer empty, the error counter 0 and the        *)
(* direction cleared, and no payload event or trigger is put before the    *)
(* next START.                                                             *)
NoPayloadWhileAwaiting ==
    hist.await => (Payload(out) = <<>> /\ ~Has(out, ANN_TRIG))

C3_Original ==
    /\ hist.raw = max_errors =>
         (state = ST_IDLE /\ bits = <<>> /\ errors = 0 /\ ~is_read)
    /\ NoPayloadWhileAwaiting

(* C3 amended: after the third of three consecutive badly timed pulses the *)
(* state is Idle, the buffer empty and the direction cleared; the error    *)
(* counter is 0 when the three are counted from a counter of 0 and no      *)
(* frame-gap resynchronization fell on the second or third, and otherwise  *)
(* the number (1 or 2) of bad pulses since the last resynchronization; no  *)
(* payload event or trigger is put before the next START.                  *)
C3_ThreeBadPulses ==
    /\ hist.raw = max_errors => (state = ST_IDLE /\ bits = <<>> /\ ~is_read)
    /\ hist.run = max_errors => errors = 0
    /\ (hist.raw = max_errors /\ hist.run < max_errors) => errors = hist.run
    /\ NoPayloadWhileAwaiting

\* a third bad pulse that hit a transaction in the middle of its address
C3_Witness ==
    hist.run = max_errors /\ state = ST_IDLE /\ addr_bytes_remaining = 1 /\ errors = 0

----------------------------------------------------------------------------
(* C4 as stated: the read cycle, whose closing master frame puts End when  *)
(* it is (1, 0xFF) and an invalid-command error otherwise.                 *)
C4_Cycle ==
    /\ (Has(out', ANN_RW) /\ is_read') => state' = ST_READ_TRIG
    /\ (RiseNow /\ pre.state = ST_READ_TRIG /\ PulseValid')
         => (out' = <<EvTrigger>> /\ state' = ST_READ_DATA /\ bits' = <<>>)
    /\ (RiseNow /\ pre.state = ST_READ_DATA /\ PulseValid' /\ ~PulseLong
           /\ Len(pre.bits) < 7)
         => /\ bits' = Append(pre.bits, PulseBit')
            /\ state' = ST_READ_DATA
            /\ Semantic(out') = <<>>
    /\ (RiseNow /\ pre.state = ST_READ_DATA /\ PulseValid' /\ ~PulseLong
           /\ Len(pre.bits) = 7)
         => /\ Semantic(out') =
                 <<Ann(ANN_DATA_S, "DATA_S", Hex2(ByteValue(Append(pre.bits, PulseBit'))))>>
            /\ state' = ST_SLAVE_END
            /\ bits' = <<>>
    /\ (RiseNow /\ pre.state = ST_SLAVE_END /\ PulseValid' /\ ~PulseLong)
         => (out' = <<>> /\ state' = ST_READ_TRIG_OR_END)
    /\ (RiseNow /\ pre.state = ST_READ_TRIG_OR_END /\ PulseValid' /\ PulseBit' = 0)
         => (out' = <<EvTrigger>> /\ state' = ST_READ_DATA /\ bits' = <<>>)
    /\ (RiseNow /\ pre.state = ST_READ_TRIG_OR_END /\ PulseValid' /\ PulseBit' = 1)
         => (Semantic(out') = <<>> /\ state' = ST_DATA /\ bits' = <<1>>)

\* the master frame that closes a read is complete
ReadFrameCompletes == Completes /\ pre.state = ST_DATA /\ pre.is_read /\ BufCmd = 1

C4_OriginalStep ==
    /\ C4_Cycle
    /\ (ReadFrameCompletes /\ BufVal = END_BYTE) => Semantic(out') = <<EvEnd>>
    /\ (ReadFrameCompletes /\ BufVal # END_BYTE)
         => (Len(Semantic(out')) = 1 /\ HasErr(out', "Invalid CMD"))

C4_Original == [][C4_OriginalStep]_vars

(* C4 amended: as stated, but a closing master frame equal to (1, 0x5A)    *)
(* puts an "unexpected START" error followed by START and opens a new      *)
(* transaction; any value other than 0xFF and 0x5A is an invalid command.  *)
C4_Step ==
    /\ C4_Cycle
    /\ (ReadFrameCompletes /\ BufVal = END_BYTE)
         => (Semantic(out') = <<EvEnd>> /\ state' = ST_IDLE)
    /\ (ReadFrameCompletes /\ BufVal = START_BYTE)
         => (Semantic(out') = <<ErrUnexpectedStart, EvStart>> /\ state' = ST_ADDR_0)
    /\ (ReadFrameCompletes /\ BufVal \notin {END_BYTE, START_BYTE})
         => /\ Len(Semantic(out')) = 1
            /\ HasErr(out', "Invalid CMD")
            /\ state' = ST_IDLE

C4_ReadSequence == [][C4_Step]_vars

\* the nine bits of an END frame are buffered at the end of a read cycle
C4_Witness ==
    state = ST_DATA /\ is_read /\ Len(bits) = 9 /\ bits[1] = 1
    /\ ByteValue(SubSeq(bits, 2, 9)) = END_BYTE

----------------------------------------------------------------------------
(* C7: at a falling edge a "frame gap" error is put, and the decoder       *)
(* resynchronized (Idle, buffer empty, error counter 0, direction          *)
(* cleared), exactly when the decoder is in-frame and the gap before the   *)
(* pulse exceeds 10 units, and otherwise the edge changes nothing; the     *)
(* resynchronization precedes the classification, so a valid pulse is then *)
(* the command bit of a fresh master byte in Idle.                         *)
ErrFrameGap == Ann(ANN_ERROR, "Frame gap", <<>>)
ErrBadTiming == Ann(ANN_ERROR, "Bad timing", <<>>)

C7_Step ==
    /\ FallNow =>
         /\ HasErr(out', "Frame gap") <=> (InFrameNow /\ PulseLong')
         /\ (InFrameNow /\ PulseLong')
              => /\ out' = <<ErrFrameGap>>
                 /\ state' = ST_IDLE /\ bits' = <<>> /\ errors' = 0 /\ ~is_read'
         /\ ~(InFrameNow /\ PulseLong')
              => (out' = <<>> /\ Fields(Cur)' = Fields(Cur))
    /\ RiseNow => (HasErr(out', "Frame gap") <=> (InFrameNow /\ PulseLong))
    /\ (RiseNow /\ InFrameNow /\ PulseLong /\ PulseValid')
         => /\ out' = <<ErrFrameGap, Ann(ANN_CMD_BIT, "bit", <<PulseBit'>>)>>
            /\ state' = ST_IDLE
            /\ bits' = <<PulseBit'>>
            /\ errors' = 0
            /\ ~is_read'
    /\ (RiseNow /\ InFrameNow /\ PulseLong /\ ~PulseValid')
         => /\ out' = <<ErrFrameGap, ErrBadTiming>>
            /\ state' = ST_IDLE
            /\ bits' = <<>>
            /\ errors' = 1
            /\ ~is_read'

C7_FrameGap == [][C7_Step]_vars

\* a late valid pulse cut a transaction whose address was complete and
\* became a command bit in Idle
C7_Witness ==
    /\ HasErr(out, "Frame gap")
    /\ Has(out, ANN_CMD_BIT)
    /\ state = ST_IDLE
    /\ Len(bits) = 1
    /\ addr # 0 /\ addr_bytes_remaining = 0

----------------------------------------------------------------------------
(* C8: in every state a completed master byte with cmd = 1 and a value     *)
(* other than 0x5A returns the decoder to Idle with the direction cleared; *)
(* it puts exactly one End event and no error if the value is 0xFF, and    *)
(* exactly one invalid-command error and no End for any other value.       *)
C8_Step ==
    (Completes /\ BufCmd = 1 /\ BufVal # START_BYTE)
    => /\ state' = ST_IDLE
       /\ ~is_read'
       /\ bits' = <<>>
       /\ BufVal = END_BYTE => Semantic(out') = <<EvEnd>>
       /\ BufVal # END_BYTE
            => Semantic(out') = <<Ann(ANN_ERROR, "Invalid CMD", Hex2(BufVal))>>

C8_CommandByte == [][C8_Step]_vars

\* an invalid command dropped a transaction that was in its address
C8_Witness ==
    HasErr(out, "Invalid CMD") /\ state = ST_IDLE /\ addr_bytes_remaining = 1

----------------------------------------------------------------------------
(* C9 as stated: every master byte completed in Idle that is not           *)
(* (1, 0x5A) puts exactly one error event, leaves the buffer empty and     *)
(* the state Idle.                                                         *)
IdleByteCompletes ==
    Completes /\ pre.state = ST_IDLE /\ ~(BufCmd = 1 /\ BufVal = START_BYTE)

C9_OriginalStep ==
    IdleByteCompletes
    => (Len(Errors(out')) = 1 /\ bits' = <<>> /\ state' = ST_IDLE)

C9_Original == [][C9_OriginalStep]_vars

(* C9 amended: every master byte completed in Idle that is neither         *)
(* (1, 0x5A) nor (1, 0xFF) puts exactly one error event ("missing START"   *)
(* for cmd = 0, "invalid command" for cmd = 1) and no other semantic       *)
(* event; (1, 0xFF) puts an End event and no error; in both cases the      *)
(* buffer is emptied and the state remains Idle.                           *)
C9_Step ==
    IdleByteCompletes
    => /\ bits' = <<>>
       /\ state' = ST_IDLE
       /\ BufCmd = 0 => Semantic(out') = <<Ann(ANN_ERROR, "Missing START", <<>>)>>
       /\ (BufCmd = 1 /\ BufVal # END_BYTE)
            => Semantic(out') = <<Ann(ANN_ERROR, "Invalid CMD", Hex2(BufVal))>>
       /\ (BufCmd = 1 /\ BufVal = END_BYTE) => Semantic(out') = <<EvEnd>>

C9_IdleByte == [][C9_Step]_vars

\* a data byte was completed in Idle before any START
C9_Witness ==
    HasErr(out, "Missing START") /\ state = ST_IDLE /\ bits = <<>> /\ ~fresh.active

----------------------------------------------------------------------------
(* C10 as stated: a master byte is interpreted while its ninth bit is      *)
(* processed, so between pulses the buffer never holds nine bits.          *)
C10_Original == Len(bits) < 9

(* C10 amended: a master byte is interpreted while the next validly timed  *)
(* pulse after its ninth bit (the end unit) is processed, if that pulse is *)
(* not late by more than 10 units: the pulse adds no bit, the buffer is    *)
(* reduced to a byte, handed to the state machine and cleared.  Until then *)
(* the nine bits stay buffered (a late pulse discards them without         *)
(* interpreting them); the buffer never holds more than nine.              *)
C10_Step ==
    /\ Len(bits') <= 9
    /\ (RiseNow /\ pre.state \in MasterStates /\ Len(pre.bits) < 9 /\ PulseValid'
           /\ ~(InFrameNow /\ PulseLong))
         => /\ bits' = Append(pre.bits, PulseBit')
            /\ Semantic(out') = <<>>
            /\ ~Has(out', ANN_BYTE)
            /\ state' = pre.state
    /\ Completes
         => /\ bits' = <<>>
            /\ Count(out', ANN_BYTE) = 1
            /\ \E i \in 1..Len(out') : out'[i] = Ann(ANN_BYTE, "BYTE", Hex2(BufVal))
            /\ ~Has(out', ANN_BIT) /\ ~Has(out', ANN_CMD_BIT)
    /\ (RiseNow /\ Len(pre.bits) = 9 /\ ~PulseValid' /\ ~PulseLong)
         => (bits' = pre.bits \/ (hist'.run = max_errors /\ bits' = <<>>))
    /\ (FallNow /\ Len(pre.bits) = 9 /\ PulseLong')
         => (out' = <<ErrFrameGap>> /\ bits' = <<>> /\ state' = ST_IDLE)
    /\ (RiseNow /\ Len(pre.bits) = 9 /\ PulseLong)
         => (~Has(out', ANN_BYTE) /\ Semantic(out')[1] = ErrFrameGap /\ state' = ST_IDLE)

C10_MasterByte == [][C10_Step]_vars

\* a data byte was interpreted on its end unit
C10_Witness == Has(out, ANN_DATA_M) /\ bits = <<>> /\ state = ST_DATA /\ ~is_read

----------------------------------------------------------------------------
(* Properties of SpecTx.                                                   *)

TxDone == sent = Len(plan)

\* the address of the transaction, most significant byte first
BigEndian(a) ==
    IF Len(a) = 2 THEN a[1] * 256 + a[2] ELSE a[1] * 65536 + a[2] * 256 + a[3]

ExpAddr == Ann(ANN_ADDR, "ADDR", Flat([i \in 1..Len(tx.addr) |-> Hex2(tx.addr[i])]))
ExpRw ==
    IF tx.rw >= 128 THEN Ann(ANN_RW, "R", <<tx.rw - 128>>) ELSE Ann(ANN_RW, "W", <<tx.rw>>)
ExpWrite(v) == <<Ann(ANN_DATA_M, "DATA_M", Hex2(v))>>
ExpRead(v) == <<Ann(ANN_DATA_S, "DATA_S", Hex2(v))>>
ExpReadTrig(v) == <<EvTrigger, Ann(ANN_DATA_S, "DATA_S", Hex2(v))>>

IsNotTrigger(e) == e.ann # ANN_TRIG

(* C1 as stated: a well-formed transaction with K >= 0 data bytes puts     *)
(* START, the address, the direction/ID, the K data bytes in order and     *)
(* END, and no error (read triggers are not counted).                      *)
C1_Original ==
    TxDone =>
      SelectSeq(log, IsNotTrigger) =
        <<EvStart, ExpAddr, ExpRw>>
        \o Flat([i \in 1..Len(tx.data) |->
                   IF IsReadTx(tx) THEN ExpRead(tx.data[i]) ELSE ExpWrite(tx.data[i])])
        \o <<EvEnd>>

(* C1 amended: as stated for a write with K >= 0 and for a read with       *)
(* K >= 1; in a read each slave-data event is preceded by its Trigger      *)
(* event.  The decoder is back in Idle after END.                          *)
C1_WellFormed ==
    (TxDone /\ (IsReadTx(tx) => Len(tx.data) >= 1)) =>
      /\ log =
           <<EvStart, ExpAddr, ExpRw>>
           \o Flat([i \in 1..Len(tx.data) |->
                      IF IsReadTx(tx) THEN ExpReadTrig(tx.data[i]) ELSE ExpWrite(tx.data[i])])
           \o <<EvEnd>>
      /\ state = ST_IDLE

\* a read of two slave bytes was sent to its end
C1_Witness ==
    TxDone /\ IsReadTx(tx) /\ Len(tx.data) = 2 /\ tx.data[1] # tx.data[2]
    /\ Has(out, ANN_END)

(* C5: after START, the W address bytes b1..bW put exactly one address     *)
(* event, on completion of the W-th byte, whose value is the big-endian    *)
(* fold of the bytes; the decoder then expects the direction/ID byte.      *)
AddrDone == 10 * (1 + addr_bytes)

C5_Address ==
    /\ sent < AddrDone => Count(log, ANN_ADDR) = 0
    /\ sent >= AddrDone => Count(log, ANN_ADDR) = 1
    /\ (sent = AddrDone /\ Between)
         => /\ Semantic(out) = <<ExpAddr>>
            /\ addr = BigEndian(tx.addr)
            /\ state = ST_RW_ID
            /\ addr_bytes_remaining = 0
    /\ (sent = AddrDone /\ Between /\ tx.addr = <<18, 52, 86>>)
         => (addr = 1193046 /\ out[Len(out)].val = <<1, 2, 3, 4, 5, 6>>)
    /\ (sent = AddrDone /\ Between /\ tx.addr = <<171, 205>>)
         => (addr = 43981 /\ out[Len(out)].val = <<10, 11, 12, 13>>)

\* the address 0x123456 was put for the bytes 0x12, 0x34, 0x56
C5_Witness ==
    sent = AddrDone /\ tx.addr = <<18, 52, 86>> /\ Has(out, ANN_ADDR) /\ addr = 1193046

----------------------------------------------------------------------------
(* Properties of SpecTiming.                                               *)

\* the pulse put a bit annotation of value b, and b is the last bit buffered
PutBit(b) ==
    /\ ~HasErr(out, "Bad timing")
    /\ out[Len(out)].ann \in {ANN_BIT, ANN_CMD_BIT}
    /\ out[Len(out)].val = <<b>>
    /\ bits # <<>> /\ bits[Len(bits)] = b

PutTimingError ==
    /\ out[Len(out)] = ErrBadTiming
    /\ ~Has(out, ANN_BIT) /\ ~Has(out, ANN_CMD_BIT)

\* low_time = k units
IsUnits(l, k) == l * 5 * bitrate = k * rate

(* C6: a pulse is bit 0 exactly when 0.5u <= low_time <= 1.5u, bit 1       *)
(* exactly when 3.5u <= low_time <= 4.5u and a timing error otherwise      *)
(* (1.0u is 0, 4.0u is 1, 2.0u and 6.0u are errors); the 2.5u midpoint     *)
(* never gives a bit that disagrees with the windows.  The windows are     *)
(* those of the rational unit u; decode() compares with unit * 3.5 in      *)
(* double arithmetic, which can lie above 3.5u.                            *)
C6_Classification ==
    (npulses >= 1 /\ Between) =>
      LET l == pulse.low_time
      IN /\ Window0(l) <=> PutBit(0)
         /\ Window1(l) <=> PutBit(1)
         /\ ~(Window0(l) \/ Window1(l)) <=> PutTimingError
         /\ IsUnits(l, 1) => PutBit(0)
         /\ IsUnits(l, 4) => PutBit(1)
         /\ (IsUnits(l, 2) \/ IsUnits(l, 6)) => PutTimingError

----------------------------------------------------------------------------
(* C11: a pulse that fits neither window puts exactly one "bad timing"     *)
(* error, and a gap above 10 units met in-frame puts exactly one "frame    *)
(* gap" error, each on the pulse that reveals it and on no other; a badly  *)
(* timed pulse puts nothing else, so a forced resynchronization adds no    *)
(* event: the third consecutive bad pulse puts the one "bad timing" error  *)
(* (after the "frame gap" error when it also came late in-frame).          *)
CountErr(o, txt) ==
    Cardinality({i \in 1..Len(o) : o[i].ann = ANN_ERROR /\ o[i].txt = txt})

\* at the rising edge of a pulse: it came late in-frame; it fits no window
GapAnomaly == RiseNow /\ InFrameNow /\ PulseLong
TimingAnomaly == RiseNow /\ ~PulseValid'

C11_Step ==
    /\ FallNow =>
         /\ CountErr(out', "Frame gap") = (IF InFrameNow /\ PulseLong' THEN 1 ELSE 0)
         /\ Len(out') = CountErr(out', "Frame gap")
    /\ RiseNow =>
         /\ CountErr(out', "Frame gap") = (IF GapAnomaly THEN 1 ELSE 0)
         /\ CountErr(out', "Bad timing") = (IF TimingAnomaly THEN 1 ELSE 0)
    /\ TimingAnomaly =>
         out' = (IF GapAnomaly THEN <<ErrFrameGap>> ELSE <<>>) \o <<ErrBadTiming>>
    /\ (GapAnomaly /\ ~TimingAnomaly) => Errors(out') = <<ErrFrameGap>>
    /\ (TimingAnomaly /\ ~GapAnomaly /\ pre.errors = max_errors - 1)
         => (out' = <<ErrBadTiming>> /\ state' = ST_IDLE /\ errors' = 0)

C11_OneErrorPerAnomaly == [][C11_Step]_vars

\* the third bad pulse in a row resynchronized a decoder that was in the
\* middle of a 3-byte address, and put its one error
C11_Witness ==
    /\ hist.run = max_errors
    /\ out = <<ErrBadTiming>>
    /\ state = ST_IDLE
    /\ addr_bytes_remaining = 2

----------------------------------------------------------------------------
(* C13 as stated: a badly timed pulse that does not bring the error        *)
(* counter to 3 changes nothing but the counter, which grows by one.       *)
OnlyCounted ==
    /\ state' = pre.state
    /\ bits' = pre.bits
    /\ addr' = pre.addr
    /\ addr_bytes_remaining' = pre.addr_bytes_remaining
    /\ is_read' = pre.is_read
    /\ errors' = pre.errors + 1

C13_OriginalStep == (TimingAnomaly /\ pre.errors < max_errors - 1) => OnlyCounted

C13_Original == [][C13_OriginalStep]_vars

(* C13 amended: a badly timed pulse that does not come late in-frame (no   *)
(* frame-gap resynchronization precedes it) and does not bring the error   *)
(* counter to 3 changes nothing but the counter, which grows by one: the   *)
(* state, the buffered bits, the address and the direction stay, and the   *)
(* only event is the "bad timing" error.                                   *)
C13_Step ==
    (TimingAnomaly /\ ~GapAnomaly /\ pre.errors < max_errors - 1)
    => (OnlyCounted /\ out' = <<ErrBadTiming>>)

C13_BadPulseOnlyCounted == [][C13_Step]_vars

\* two bad pulses hit a direction/ID byte one bit short of its 9 bits, and
\* the 8 bits are still buffered
C13_Witness ==
    /\ out = <<ErrBadTiming>>
    /\ errors = max_errors - 1
    /\ state = ST_RW_ID
    /\ Len(bits) = 8

----------------------------------------------------------------------------
(* C14: between pulses the error counter is the number of badly timed      *)
(* pulses since the last validly timed pulse or forced resynchronization   *)
(* (frame gap, or third bad pulse), and lies in 0..2; a badly timed pulse  *)
(* returns the counter to 0, which is the timing-triggered                 *)
(* resynchronization, only as the last of three bad pulses in a row.       *)
BadSinceValidOrResync == IF hist.run = max_errors THEN 0 ELSE hist.run

C14_Inv == Between => (errors = BadSinceValidOrResync /\ errors \in 0..(max_errors - 1))

C14_Step == (TimingAnomaly /\ errors' = 0) => hist'.raw = max_errors

C14_ErrorCounter == []C14_Inv /\ [][C14_Step]_vars

\* two bad pulses since the last valid slave data bit of a read; the seven
\* bits received are still buffered
C14_Witness ==
    /\ errors = max_errors - 1
    /\ hist.run = max_errors - 1
    /\ state = ST_READ_DATA
    /\ Len(bits) = 7

----------------------------------------------------------------------------
(* C15: after a completed START byte, whatever the state before, the       *)
(* decoder's fields are those a decoder fresh from reset reaches on a      *)
(* START byte: AddrFirst, empty buffer, address 0, bytes-remaining the     *)
(* configured width, error counter 0, direction not-read.                  *)
C15_Original ==
    Has(out, ANN_START)
    => /\ Fields(Cur) = Fields(FreshStart.d)
       /\ Fields(Cur) = [state |-> ST_ADDR_0, bits |-> <<>>, addr |-> 0,
                          addr_bytes_remaining |-> addr_bytes,
                          errors |-> 0, is_read |-> FALSE]

----------------------------------------------------------------------------
(* C16 as stated: every resynchronization (third consecutive bad pulse,    *)
(* excess gap in-frame) brings every field back to its value on            *)
(* construction, the address value and bytes-remaining included.           *)
TimingResync == TimingAnomaly /\ ~GapAnomaly /\ pre.errors = max_errors - 1
\* the falling edge that resynchronizes
GapResync == FallNow /\ InFrameNow /\ PulseLong'

\* what the pulse that came late leaves of a decoder resynchronized at its
\* falling edge
LatePulseOnIdle ==
    /\ state' = ST_IDLE
    /\ ~is_read'
    /\ bits' = (IF PulseValid' THEN <<PulseBit'>> ELSE <<>>)
    /\ errors' = (IF PulseValid' THEN 0 ELSE 1)

C16_OriginalStep ==
    /\ TimingResync
         => (Fields([bits |-> bits', state |-> state', addr |-> addr',
                     addr_bytes_remaining |-> addr_bytes_remaining',
                     errors |-> errors', is_read |-> is_read']) = Fields(Reset))
    /\ GapResync
         => (Fields(Cur)' = Fields(Reset))
    /\ GapAnomaly
         => (LatePulseOnIdle /\ addr' = Reset.addr
             /\ addr_bytes_remaining' = Reset.addr_bytes_remaining)

C16_Original == [][C16_OriginalStep]_vars

(* C16 amended: every resynchronization empties the buffer, sets the state *)
(* to Idle, the direction to not-read and the error counter to 0 (an       *)
(* excess gap does so at the falling edge, and the late pulse is then      *)
(* taken from that state), and leaves the address value and                *)
(* bytes-remaining as they were.                                           *)
C16_Step ==
    /\ TimingResync
         => /\ bits' = <<>> /\ state' = ST_IDLE /\ ~is_read' /\ errors' = 0
            /\ addr' = pre.addr /\ addr_bytes_remaining' = pre.addr_bytes_remaining
    /\ GapResync
         => /\ bits' = <<>> /\ state' = ST_IDLE /\ ~is_read' /\ errors' = 0
            /\ addr' = pre.addr /\ addr_bytes_remaining' = pre.addr_bytes_remaining
    /\ GapAnomaly
         => /\ LatePulseOnIdle
            /\ addr' = pre.addr /\ addr_bytes_remaining' = pre.addr_bytes_remaining

C16_Resync == [][C16_Step]_vars

\* a late and badly timed pulse resynchronized a decoder that had taken
\* part of an address, which it still holds
C16_Witness ==
    /\ out = <<ErrFrameGap, ErrBadTiming>>
    /\ state = ST_IDLE
    /\ addr # 0
    /\ addr_bytes_remaining = 1

----------------------------------------------------------------------------
(* C17: between pulses the buffer holds at most 9 bits, fewer than 8 in    *)
(* ReadData, and none in ReadTrigger, SlaveEnd and ReadTriggerOrEnd.       *)
C17_Buffer ==
    /\ Len(bits) <= 9
    /\ state = ST_READ_DATA => Len(bits) < 8
    /\ state \in {ST_READ_TRIG, ST_SLAVE_END, ST_READ_TRIG_OR_END} => bits = <<>>

\* the eighth bit of a slave byte emptied the buffer on the way to SlaveEnd
C17_Witness == state = ST_SLAVE_END /\ bits = <<>> /\ Has(out, ANN_DATA_S)

----------------------------------------------------------------------------
(* C18: between pulses the direction is not-read in Idle, and read in      *)
(* ReadTrigger, ReadData, SlaveEnd and ReadTriggerOrEnd.                   *)
C18_Direction ==
    /\ state = ST_IDLE => ~is_read
    /\ state \in ReadStates => is_read

\* a falling edge that came late cut a read in its slave data: Idle again,
\* and the direction cleared
C18_Witness ==
    /\ state = ST_IDLE /\ ~is_read
    /\ waiting = "r" /\ pre.state = ST_READ_DATA /\ pre.is_read /\ Len(pre.bits) = 3

----------------------------------------------------------------------------
(* C19: no master-data event is put while the direction is read.  In Data  *)
(* with the direction read the buffer is non-empty with command bit 1, so  *)
(* the byte completes as START, END or invalid command only; and once a    *)
(* direction/ID event has announced a read, no master-data event is put    *)
(* until a direction/ID event announces a write: a master-data event is    *)
(* put only when the last START, address, direction/ID or closing event    *)
(* before the pulse was a direction/ID event announcing a write.           *)
C19_Inv ==
    /\ (state = ST_DATA /\ is_read) => (bits # <<>> /\ bits[1] = 1)
    /\ Has(out, ANN_DATA_M) => ~is_read

C19_Step ==
    /\ Has(out', ANN_DATA_M) => (RiseNow /\ ~pre.is_read /\ hist.phase = "W")
    /\ (Completes /\ pre.state = ST_DATA /\ pre.is_read)
         => (Has(out', ANN_START) \/ Has(out', ANN_END) \/ HasErr(out', "Invalid CMD"))

C19_NoMasterDataInRead == []C19_Inv /\ [][C19_Step]_vars

\* a read is being closed: the 9 bits of a master byte with command bit 1
\* are buffered in Data, the direction still read
C19_Witness ==
    /\ state = ST_DATA /\ is_read /\ hist.phase = "R"
    /\ Len(bits) = 9 /\ bits[1] = 1
    /\ Has(out, ANN_BIT)

----------------------------------------------------------------------------
(* C20: the events come in protocol order.  An address event follows a     *)
(* START, a direction/ID event an address event, a master-data event a     *)
(* direction/ID event announcing a write, a slave-data or Trigger event    *)
(* one announcing a read, each time with no END, invalid-command error,    *)
(* framing error or third consecutive timing error in between.             *)
Allowed(p, e) ==
    IF e.ann = ANN_ADDR THEN p = "start"
    ELSE IF e.ann = ANN_RW THEN p = "addr"
    ELSE IF e.ann = ANN_DATA_M THEN p = "W"
    ELSE IF e.ann \in {ANN_DATA_S, ANN_TRIG} THEN p = "R"
    ELSE TRUE

RECURSIVE InOrder(_, _)
InOrder(p, o) ==
    IF o = <<>> THEN TRUE
    ELSE Allowed(p, Head(o)) /\ InOrder(PhaseAfter(p, Head(o)), Tail(o))

C20_Step == InOrder(hist.phase, out')

C20_ProtocolOrder == [][C20_Step]_vars

\* the slave byte of a read was put in its place, after the direction/ID
\* event that announced the read and a Trigger
C20_Witness == hist.phase = "R" /\ Has(out, ANN_DATA_S) /\ state = ST_SLAVE_END /\ addr # 0

====
